---- MODULE Spec2Model ----
(***************************************************************************)
(* Osiris/data_IO.py: event normalisation (calculate_normalisedEvents) and *)
(* hairpin training-set assembly (import_HairpinTrainingData).             *)
(*                                                                         *)
(* DNA strings are sequences of one-character strings, indexed from 1 in   *)
(* TLA+ and from 0 in Python; every index that the code computes is kept   *)
(* 0-based here.  Floating-point numbers are exact rationals <<n, d>> with *)
(* d > 0 in lowest terms; <<1, 0>>, <<-1, 0>> and <<0, 0>> stand for the    *)
(* IEEE values inf, -inf and nan that a division by 0.0 produces.          *)
(***************************************************************************)
EXTENDS Integers, Sequences, FiniteSets, TLC

VARIABLES
    pc,                    \* position in the running function
    caller,                \* who called calculate_normalisedEvents
    err,                   \* the exception that ended the run, or "none"
    readsThreshold,        \* argument of import_HairpinTrainingData
    nRecords,              \* alignment records read so far
    record,                \* loop variable of "for record in f"
    kmer2Files,            \* 7mer -> list of fast5 paths
    keysLeft,              \* keys "for key in kmer2Files" has yet to visit
    key,                   \* loop variable of "for key in kmer2Files"
    counter,               \* progress counter
    kmer2normalisedReads,  \* 7mer -> list of lists of normalised events
    h5,                    \* the fast5 files on disk: path -> Events table
    fast5Files,            \* argument of calculate_normalisedEvents
    fileIdx,               \* position of "for f5File in fast5Files" (1-based)
    openFiles,             \* positions in fast5Files whose h5py.File is open
    Events,                \* the Events table of the open file
    evIdx,                 \* position of "for event in Events" (1-based)
    A,                     \* normal-equations matrix, <<A00, A01, A10, A11>>
    b,                     \* right-hand side, <<b0, b1>>
    shift,
    scale,
    normalisedEvents,
    allNormalisedReads

vars == <<pc, caller, err, readsThreshold, nRecords, record, kmer2Files, keysLeft,
          key, counter, kmer2normalisedReads, h5, fast5Files, fileIdx, openFiles,
          Events, evIdx, A, b, shift, scale, normalisedEvents, allNormalisedReads>>

hairpinVars == <<readsThreshold, nRecords, record, kmer2Files, keysLeft, key,
                 counter, kmer2normalisedReads>>

fitVars == <<Events, evIdx, A, b, shift, scale, normalisedEvents>>

(***************************************************************************)
(* Bounds of the model.                                                    *)
(***************************************************************************)
MaxBlocks == 3      \* blocks concatenated into one basecalled read
MaxRecords == 3     \* alignment records in the BAM file
MaxThreshold == 1   \* largest readsThreshold tried
MaxEvents == 3      \* events in the fast5 file whose content is arbitrary
MaxFiles == 2       \* length of the fast5Files argument

(***************************************************************************)
(* Exact arithmetic standing for numpy's float64.                          *)
(***************************************************************************)
Abs(n) == IF n < 0 THEN -n ELSE n

RECURSIVE Gcd(_, _)
Gcd(m, n) == IF n = 0 THEN m ELSE Gcd(n, m % n)

Rat(n, d) ==
    LET g == Gcd(Abs(n), Abs(d))
        s == IF d < 0 THEN -1 ELSE 1
    IN  <<(s * n) \div g, (s * d) \div g>>

Num(i) == <<i, 1>>
Zero == Num(0)
One == Num(1)
Inf == <<1, 0>>
NegInf == <<-1, 0>>
NaN == <<0, 0>>
IsFinite(x) == x[2] # 0

FAdd(x, y) == Rat(x[1] * y[2] + y[1] * x[2], x[2] * y[2])
FNeg(x) == <<-x[1], x[2]>>
FMul(x, y) == Rat(x[1] * y[1], x[2] * y[2])
\* x / y as IEEE division of finite operands: y = 0.0 gives inf, -inf or nan.
FDiv(x, y) ==
    IF y[1] = 0
    THEN IF x[1] = 0 THEN NaN ELSE IF x[1] > 0 THEN Inf ELSE NegInf
    ELSE Rat(x[1] * y[2], x[2] * y[1])
\* x - y with y finite: inf - y = inf, nan - y = nan.
FSub(x, y) == IF IsFinite(x) THEN FAdd(x, FNeg(y)) ELSE x

(***************************************************************************)
(* The pore model (import_poreModel's result) and the events of a read.    *)
(* An event is [mean, kmer, conf]: event[0], event[4] and event[7], with   *)
(* the call confidence in hundredths (30 is 0.30).                         *)
(***************************************************************************)
kmer2MeanStd ==
    ("AAAAA" :> [mean |-> Num(1), std |-> Num(1)]) @@
    ("CCCCC" :> [mean |-> Num(2), std |-> Num(2)])

ConfidenceCutoff == 30

EventMeans == {1, 2, 3}
EventKmers == {"AAAAA", "CCCCC", "NNNNN"}
EventConfs == {ConfidenceCutoff, ConfidenceCutoff + 1}
AllEvents == [mean : EventMeans, kmer : EventKmers, conf : EventConfs]

Ev(m, k, c) == [mean |-> m, kmer |-> k, conf |-> c]

RECURSIVE SeqsUpTo(_, _)
SeqsUpTo(S, n) ==
    IF n = 0 THEN {<<>>}
    ELSE LET shorter == SeqsUpTo(S, n - 1)
         IN  shorter \cup {Append(q, x) : q \in shorter, x \in S}

EventStreams == SeqsUpTo(AllEvents, MaxEvents)

\* The fast5 files the multi-read runs work on: two reads that fit, one read
\* without events and one read whose called 5mer is not in the pore model.
Fast5Disk ==
    ("r1.fast5" :> <<Ev(1, "AAAAA", 31), Ev(3, "CCCCC", 31)>>) @@
    ("r2.fast5" :> <<Ev(2, "AAAAA", 31), Ev(1, "CCCCC", 30), Ev(3, "CCCCC", 31)>>) @@
    ("r3.fast5" :> <<>>) @@
    ("r4.fast5" :> <<Ev(2, "AAAAA", 31), Ev(2, "NNNNN", 31)>>)

Fast5Paths == DOMAIN Fast5Disk

(***************************************************************************)
(* calculate_normalisedEvents                                              *)
(***************************************************************************)
\* line 128: the filter of the fitting pass
QualifiesForFit(event) == event.conf > ConfidenceCutoff

\* a filter that lets the cutoff itself through
QualifiesAtCutoff(event) == event.conf >= ConfidenceCutoff

\* line 154: the filter of the normalising pass
QualifiesForOutput(event) == event.conf > ConfidenceCutoff

ZeroMatrix == <<Zero, Zero, Zero, Zero>>
ZeroVector == <<Zero, Zero>>

Weight(model_std) == FDiv(One, FMul(model_std, model_std))

\* lines 135-137: A[0,0], A[1,0] and A[1,1] grow; A[0,1] is left alone
UpdateA(M, model_mean, model_std) ==
    LET w == Weight(model_std)
    IN  <<FAdd(M[1], w),
          M[2],
          FAdd(M[3], FMul(w, model_mean)),
          FAdd(M[4], FMul(w, FMul(model_mean, model_mean)))>>

\* lines 140-141
UpdateB(v, event_mean, model_mean, model_std) ==
    LET w == Weight(model_std)
    IN  <<FAdd(v[1], FMul(w, event_mean)),
          FAdd(v[2], FMul(FMul(w, event_mean), model_mean))>>

\* a matrix whose upper triangle was never filled
NoSymmetry(M) == M

\* line 144
Symmetrise(M) == <<M[1], M[3], M[3], M[4]>>

Det(M) == FSub(FMul(M[1], M[4]), FMul(M[2], M[3]))

\* line 147: numpy.linalg.solve raises LinAlgError on a singular matrix
Singular(M) == Det(M) = Zero

\* line 147: the solution of M.x = v, x = <<x[0][0], x[1][0]>>
Solve(M, v) ==
    <<FDiv(FSub(FMul(v[1], M[4]), FMul(M[2], v[2])), Det(M)),
      FDiv(FSub(FMul(M[1], v[2]), FMul(M[3], v[1])), Det(M))>>

\* line 156
Normalise(event_mean, sc, sh) == FSub(FDiv(event_mean, sc), sh)

Raise(e) ==
    /\ pc' = "raised"
    /\ err' = e

\* lines 119-126
OpenFile ==
    /\ pc = "open"
    /\ fileIdx <= Len(fast5Files)
    /\ openFiles' = openFiles \cup {fileIdx}
    /\ Events' = h5[fast5Files[fileIdx]]
    /\ A' = ZeroMatrix
    /\ b' = ZeroVector
    /\ evIdx' = 1
    /\ pc' = "fit"
    /\ UNCHANGED <<caller, err, hairpinVars, h5, fast5Files, fileIdx, shift, scale,
                   normalisedEvents, allNormalisedReads>>

\* lines 127-141, one event of the first pass
AccumulateEvent ==
    /\ pc = "fit"
    /\ evIdx <= Len(Events)
    /\ LET event == Events[evIdx]
           model_5mer == event.kmer
       IN  IF ~QualifiesForFit(event)
           THEN /\ evIdx' = evIdx + 1
                /\ UNCHANGED <<pc, err, A, b>>
           ELSE IF model_5mer \notin DOMAIN kmer2MeanStd
           THEN /\ Raise("KeyError")
                /\ UNCHANGED <<evIdx, A, b>>
           ELSE LET event_mean == Num(event.mean)
                    model_mean == kmer2MeanStd[model_5mer].mean
                    model_std == kmer2MeanStd[model_5mer].std
                IN  /\ A' = UpdateA(A, model_mean, model_std)
                    /\ b' = UpdateB(b, event_mean, model_mean, model_std)
                    /\ evIdx' = evIdx + 1
                    /\ UNCHANGED <<pc, err>>
    /\ UNCHANGED <<caller, hairpinVars, h5, fast5Files, fileIdx, openFiles, Events,
                   shift, scale, normalisedEvents, allNormalisedReads>>

\* lines 143-152
SolveFit ==
    /\ pc = "fit"
    /\ evIdx > Len(Events)
    /\ A' = Symmetrise(A)
    /\ IF Singular(A')
       THEN /\ Raise("LinAlgError")
            /\ UNCHANGED <<shift, scale, normalisedEvents, evIdx>>
       ELSE /\ shift' = Solve(A', b)[1]
            /\ scale' = Solve(A', b)[2]
            /\ normalisedEvents' = <<>>
            /\ evIdx' = 1
            /\ pc' = "emit"
            /\ UNCHANGED err
    /\ UNCHANGED <<caller, hairpinVars, h5, fast5Files, fileIdx, openFiles, Events,
                   b, allNormalisedReads>>

\* lines 153-156, one event of the second pass
EmitEvent ==
    /\ pc = "emit"
    /\ evIdx <= Len(Events)
    /\ LET event == Events[evIdx]
       IN  normalisedEvents' =
               IF QualifiesForOutput(event)
               THEN Append(normalisedEvents, Normalise(Num(event.mean), scale, shift))
               ELSE normalisedEvents
    /\ evIdx' = evIdx + 1
    /\ UNCHANGED <<pc, caller, err, hairpinVars, h5, fast5Files, fileIdx, openFiles,
                   Events, A, b, shift, scale, allNormalisedReads>>

\* lines 158-160
CloseFile ==
    /\ pc = "emit"
    /\ evIdx > Len(Events)
    /\ allNormalisedReads' = Append(allNormalisedReads, normalisedEvents)
    /\ openFiles' = openFiles \ {fileIdx}
    /\ fileIdx' = fileIdx + 1
    /\ pc' = "open"
    /\ UNCHANGED <<caller, err, hairpinVars, h5, fast5Files, fitVars>>

\* line 162, called on its own
ReturnNormalised ==
    /\ pc = "open"
    /\ fileIdx > Len(fast5Files)
    /\ caller = "top"
    /\ pc' = "done"
    /\ UNCHANGED <<caller, err, hairpinVars, h5, fast5Files, fileIdx, openFiles,
                   fitVars, allNormalisedReads>>

(***************************************************************************)
(* Python's string operations on sequences of characters.                  *)
(***************************************************************************)
Min(i, j) == IF i < j THEN i ELSE j
Max(i, j) == IF i > j THEN i ELSE j

\* a slice bound as Python clamps it
PyBound(i, n) == IF i < 0 THEN Max(i + n, 0) ELSE Min(i, n)

\* s[lo:hi]
PySlice(s, lo, hi) == SubSeq(s, PyBound(lo, Len(s)) + 1, PyBound(hi, Len(s)))

\* [m.start() for m in re.finditer('(?=' + pat + ')', s)], as a set of 0-based indices
FindAll(pat, s) ==
    {i \in 0..Len(s) : /\ i + Len(pat) <= Len(s)
                       /\ SubSeq(s, i + 1, i + Len(pat)) = pat}

\* s.find(pat)
Find(s, pat) ==
    LET hits == FindAll(pat, s)
    IN  IF hits = {} THEN -1 ELSE CHOOSE i \in hits : \A j \in hits : i <= j

RECURSIVE Ascending(_)
Ascending(S) ==
    IF S = {} THEN <<>>
    ELSE LET m == CHOOSE x \in S : \A y \in S : x <= y
         IN  <<m>> \o Ascending(S \ {m})

\* utility.reverseComplement
Complement(c) ==
    CASE c = "A" -> "T"
      [] c = "T" -> "A"
      [] c = "G" -> "C"
      [] c = "C" -> "G"
      [] OTHER -> c

reverseComplement(s) == [i \in 1..Len(s) |-> Complement(s[Len(s) + 1 - i])]

(***************************************************************************)
(* import_HairpinTrainingData: its arguments and the reads it is given.    *)
(***************************************************************************)
reference ==
    <<"T", "C", "G", "A", "N", "N", "N", "A", "N", "N", "N", "C", "A", "T", "G">>

redundant_A_Loc == 7

\* lines 277-278
start == PySlice(reference, redundant_A_Loc - 7, redundant_A_Loc - 3)
end == PySlice(reference, redundant_A_Loc + 4, redundant_A_Loc + 8)

\* lines 255-259: the read index built from the reads file
readIDMap ==
    ("id1" :> "r1.fast5") @@ ("id2" :> "r2.fast5") @@ ("id3" :> "r3.fast5")

\* "idX" is a read of the BAM file that the reads file does not list
ReadIDs == DOMAIN readIDMap \cup {"idX"}

K1 == <<"G", "G", "G", "A", "G", "G", "G">>
K2 == <<"C", "C", "C", "A", "G", "G", "G">>

\* The pieces reads are made of: a flanked 7mer with a middle A (twice), a
\* flanked 7mer with a middle T, a bare 7mer and two reverse complements.
ReadBlocks ==
    { start \o K1 \o end,
      start \o K2 \o end,
      start \o reverseComplement(K1) \o end,
      K1,
      reverseComplement(K1),
      reverseComplement(K2) }

RECURSIVE ReadsUpTo(_)
ReadsUpTo(n) ==
    IF n = 0 THEN {<<>>}
    ELSE LET shorter == ReadsUpTo(n - 1)
         IN  shorter \cup {q \o blk : q \in shorter, blk \in ReadBlocks}

AllReads == ReadsUpTo(MaxBlocks)
AllRecords == [readID : ReadIDs, sequence : AllReads]

\* The reads of the runs that go on to normalise: accepted for K1, accepted for
\* K2, hairpin the wrong way round, two candidates, no candidate with a middle A.
SampleReads ==
    { reverseComplement(K1) \o start \o K1 \o end,
      reverseComplement(K2) \o start \o K2 \o end,
      start \o K1 \o end \o reverseComplement(K1),
      reverseComplement(K1) \o start \o K1 \o end \o start \o K2 \o end,
      K1 \o start \o reverseComplement(K1) \o end }

SampleRecords == [readID : ReadIDs, sequence : SampleReads]

NoRecord == [readID |-> "", sequence |-> <<>>]
NoKey == <<>>
EmptyMap == [k \in {} |-> <<>>]

(***************************************************************************)
(* import_HairpinTrainingData                                              *)
(***************************************************************************)
\* line 284
EndAfterStart(ei, si) == ei > si

\* line 286
IsCandidate(candidate) == Len(candidate) = 7 /\ candidate[4] = "A"

\* lines 283-287: the candidates one start index gives, by ascending end index
RECURSIVE CandidatesAt(_, _, _)
CandidatesAt(sequence, si, eis) ==
    IF eis = <<>> THEN <<>>
    ELSE LET ei == Head(eis)
             candidate == PySlice(sequence, si, ei)
             found == IF EndAfterStart(ei, si) /\ IsCandidate(candidate)
                      THEN <<candidate>> ELSE <<>>
         IN  found \o CandidatesAt(sequence, si, Tail(eis))

\* lines 281-287
RECURSIVE CandidatesFrom(_, _, _)
CandidatesFrom(sequence, sis, eis) ==
    IF sis = <<>> THEN <<>>
    ELSE CandidatesAt(sequence, Head(sis) + Len(start), eis)
             \o CandidatesFrom(sequence, Tail(sis), eis)

\* lines 276-287
Candidates(sequence) ==
    CandidatesFrom(sequence,
                   Ascending(FindAll(start, sequence)),
                   Ascending(FindAll(end, sequence)))

\* a test that takes the first of several candidates
AnyCandidate(candidates) == Len(candidates) >= 1

\* line 290
ExactlyOne(candidates) == Len(candidates) = 1

\* a test that forgets find's -1
OrientationUnchecked(idx_brdu, idx_a) == idx_brdu < idx_a

\* line 293
OrientationOK(idx_brdu, idx_a) == idx_brdu # -1 /\ idx_brdu < idx_a

\* a bucket that grows at its front
AddFileFirst(map, kmer, path) ==
    IF kmer \in DOMAIN map
    THEN [map EXCEPT ![kmer] = <<path>> \o map[kmer]]
    ELSE (kmer :> <<path>>) @@ map

\* lines 294-297
AddFile(map, kmer, path) ==
    IF kmer \in DOMAIN map
    THEN [map EXCEPT ![kmer] = map[kmer] \o <<path>>]
    ELSE (kmer :> <<path>>) @@ map

\* a threshold that is reached rather than exceeded
ReachesThreshold(n, threshold) == n >= threshold

\* line 305
ExceedsThreshold(n, threshold) == n > threshold

\* lines 270-297, one alignment record
ProcessRecord(r) ==
    /\ pc = "records"
    /\ nRecords < MaxRecords
    /\ nRecords' = nRecords + 1
    /\ record' = r
    /\ LET sequence == r.sequence
           readID == r.readID
           candidates == Candidates(sequence)
       IN  IF ~ExactlyOne(candidates)
           THEN UNCHANGED <<pc, err, kmer2Files>>
           ELSE LET idx_brdu == Find(sequence, reverseComplement(candidates[1]))
                    idx_a == Find(sequence, candidates[1])
                IN  IF ~OrientationOK(idx_brdu, idx_a)
                    THEN UNCHANGED <<pc, err, kmer2Files>>
                    ELSE IF readID \notin DOMAIN readIDMap
                    THEN /\ Raise("KeyError")
                         /\ UNCHANGED kmer2Files
                    ELSE /\ kmer2Files' = AddFile(kmer2Files, candidates[1], readIDMap[readID])
                         /\ UNCHANGED <<pc, err>>
    /\ UNCHANGED <<caller, readsThreshold, keysLeft, key, counter, kmer2normalisedReads,
                   h5, fast5Files, fileIdx, openFiles, fitVars, allNormalisedReads>>

\* lines 299-303: the records are exhausted; record is not read again
CloseBam ==
    /\ pc = "records"
    /\ record' = NoRecord
    /\ kmer2normalisedReads' = EmptyMap
    /\ counter' = 0
    /\ keysLeft' = DOMAIN kmer2Files
    /\ pc' = "buckets"
    /\ UNCHANGED <<caller, err, readsThreshold, nRecords, kmer2Files, key, h5,
                   fast5Files, fileIdx, openFiles, fitVars, allNormalisedReads>>

\* lines 303-309 and 312: the next key, in the dictionary's own order; a bucket
\* above the threshold starts a call of calculate_normalisedEvents (lines 115-118)
VisitBucket ==
    /\ pc = "buckets"
    /\ \E k \in keysLeft :
        /\ key' = k
        /\ keysLeft' = keysLeft \ {k}
        /\ IF ExceedsThreshold(Len(kmer2Files[k]), readsThreshold)
           THEN /\ fast5Files' = kmer2Files[k]
                /\ fileIdx' = 1
                /\ allNormalisedReads' = <<>>
                /\ Events' = <<>>
                /\ evIdx' = 1
                /\ A' = ZeroMatrix
                /\ b' = ZeroVector
                /\ shift' = Zero
                /\ scale' = Zero
                /\ normalisedEvents' = <<>>
                /\ pc' = "open"
                /\ UNCHANGED counter
           ELSE /\ counter' = counter + 1
                /\ UNCHANGED <<pc, fast5Files, fileIdx, fitVars, allNormalisedReads>>
    /\ UNCHANGED <<caller, err, readsThreshold, nRecords, record, kmer2Files,
                   kmer2normalisedReads, h5, openFiles>>

\* line 162 back in lines 309-312
StoreBucket ==
    /\ pc = "open"
    /\ fileIdx > Len(fast5Files)
    /\ caller = "hairpin"
    /\ kmer2normalisedReads' = (key :> allNormalisedReads) @@ kmer2normalisedReads
    /\ counter' = counter + 1
    /\ pc' = "buckets"
    /\ UNCHANGED <<caller, err, readsThreshold, nRecords, record, kmer2Files, keysLeft,
                   key, h5, fast5Files, fileIdx, openFiles, fitVars, allNormalisedReads>>

\* line 314
ReturnDataset ==
    /\ pc = "buckets"
    /\ keysLeft = {}
    /\ pc' = "done"
    /\ UNCHANGED <<caller, err, hairpinVars, h5, fast5Files, fileIdx, openFiles,
                   fitVars, allNormalisedReads>>

(***************************************************************************)
(* Specifications.                                                         *)
(***************************************************************************)
FreshCall ==
    /\ fileIdx = 1
    /\ openFiles = {}
    /\ Events = <<>>
    /\ evIdx = 1
    /\ A = ZeroMatrix
    /\ b = ZeroVector
    /\ shift = Zero
    /\ scale = Zero
    /\ normalisedEvents = <<>>
    /\ allNormalisedReads = <<>>

NoHairpin ==
    /\ readsThreshold = 0
    /\ nRecords = 0
    /\ record = NoRecord
    /\ kmer2Files = EmptyMap
    /\ keysLeft = {}
    /\ key = NoKey
    /\ counter = 0
    /\ kmer2normalisedReads = EmptyMap

\* import_HairpinTrainingData, about to read the first alignment record
Init ==
    /\ pc = "records"
    /\ caller = "hairpin"
    /\ err = "none"
    /\ readsThreshold \in 0..MaxThreshold
    /\ nRecords = 0
    /\ record = NoRecord
    /\ kmer2Files = EmptyMap
    /\ keysLeft = {}
    /\ key = NoKey
    /\ counter = 0
    /\ kmer2normalisedReads = EmptyMap
    /\ h5 = Fast5Disk
    /\ fast5Files = <<>>
    /\ FreshCall

Next ==
    \/ \E r \in SampleRecords : ProcessRecord(r)
    \/ CloseBam
    \/ VisitBucket
    \/ OpenFile
    \/ AccumulateEvent
    \/ SolveFit
    \/ EmitEvent
    \/ CloseFile
    \/ StoreBucket
    \/ ReturnDataset

Spec == Init /\ [][Next]_vars

\* The candidate resolution of one record, for every read made of the blocks,
\* after one record of the sample has been resolved.
NextResolve ==
    \/ \E r \in SampleRecords : nRecords = 0 /\ ProcessRecord(r)
    \/ \E r \in AllRecords : nRecords = 1 /\ ProcessRecord(r)

InitResolve == Init /\ readsThreshold = 0

SpecResolve == InitResolve /\ [][NextResolve]_vars

NextNorm ==
    \/ OpenFile
    \/ AccumulateEvent
    \/ SolveFit
    \/ EmitEvent
    \/ CloseFile
    \/ ReturnNormalised

\* calculate_normalisedEvents on a list of the files of Fast5Disk
InitNorm ==
    /\ pc = "open"
    /\ caller = "top"
    /\ err = "none"
    /\ NoHairpin
    /\ h5 = Fast5Disk
    /\ fast5Files \in SeqsUpTo(Fast5Paths, MaxFiles)
    /\ FreshCall

SpecNorm == InitNorm /\ [][NextNorm]_vars

\* calculate_normalisedEvents on one file holding any stream of events
InitFit ==
    /\ pc = "open"
    /\ caller = "top"
    /\ err = "none"
    /\ NoHairpin
    /\ h5 \in [{"read.fast5"} -> EventStreams]
    /\ fast5Files = <<"read.fast5">>
    /\ FreshCall

SpecFit == InitFit /\ [][NextNorm]_vars

(***************************************************************************)
(* Candidate resolution, stated without the code's loops.                  *)
(***************************************************************************)
\* The 0-based indices where a 7mer with a middle A starts that has the start
\* anchor right before it and the end anchor right after it.
FlankedAt(sequence) ==
    {i \in 0..Len(sequence) :
        /\ i >= Len(start)
        /\ i + 7 + Len(end) <= Len(sequence)
        /\ SubSeq(sequence, i - Len(start) + 1, i) = start
        /\ SubSeq(sequence, i + 8, i + 7 + Len(end)) = end
        /\ sequence[i + 4] = "A"}

\* The flanked 7mers of a read, each with the index where it starts.
Flanked(sequence) ==
    {[at |-> i, kmer |-> SubSeq(sequence, i + 1, i + 7)] : i \in FlankedAt(sequence)}

\* A step that reads and resolves one alignment record, record'.
Resolves == nRecords' = nRecords + 1

BucketOf(map, kmer) == IF kmer \in DOMAIN map THEN map[kmer] ELSE <<>>

\* C1: a read with no candidate or with more than one candidate adds nothing to
\* any bucket and raises no error, whether or not its read id is in the read
\* index; only a read with exactly one candidate can change a bucket.
C1_AmbiguousReadDiscarded ==
    [][(Resolves /\ Cardinality(FlankedAt(record'.sequence)) # 1)
          => (kmer2Files' = kmer2Files /\ err' = "none" /\ pc' = "records")]_vars

C1_Witness ==
    /\ pc = "records"
    /\ err = "none"
    /\ nRecords = 2
    /\ record.readID = "idX"
    /\ Cardinality(FlankedAt(record.sequence)) = 2
    /\ kmer2Files # EmptyMap

\* C2: a read of the read index with exactly one candidate, some occurrence of
\* whose reverse complement starts before the flanked occurrence of the
\* candidate, has its signal-file path appended to the candidate's bucket.
C2_HairpinReadAccepted ==
    [][\A sequence \in {record'.sequence} : \A c \in Flanked(sequence) :
        \A rc \in {reverseComplement(c.kmer)} :
          (/\ Resolves
           /\ record'.readID \in DOMAIN readIDMap
           /\ Cardinality(Flanked(sequence)) = 1
           /\ \E j \in FindAll(rc, sequence) : j < c.at)
             => /\ c.kmer \in DOMAIN kmer2Files'
                /\ kmer2Files'[c.kmer] =
                       BucketOf(kmer2Files, c.kmer) \o <<readIDMap[record'.readID]>>]_vars

\* C3: a read with exactly one candidate whose reverse complement is nowhere in
\* the read, or first occurs no earlier than the candidate first occurs, or
\* never starts before the flanked occurrence, adds nothing and raises no error.
C3_WrongOrientationDiscarded ==
    [][\A sequence \in {record'.sequence} : \A c \in Flanked(sequence) :
        \A rc \in {reverseComplement(c.kmer)} :
          (/\ Resolves
           /\ Cardinality(Flanked(sequence)) = 1
           /\ \/ FindAll(rc, sequence) = {}
              \/ Find(sequence, rc) >= Find(sequence, c.kmer)
              \/ \A j \in FindAll(rc, sequence) : j >= c.at)
             => (kmer2Files' = kmer2Files /\ err' = "none" /\ pc' = "records")]_vars

C3_Witness ==
    /\ pc = "records"
    /\ err = "none"
    /\ nRecords = 2
    /\ record.readID = "idX"
    /\ Cardinality(Flanked(record.sequence)) = 1
    /\ \E c \in Flanked(record.sequence) : \E rc \in {reverseComplement(c.kmer)} :
           Find(record.sequence, rc) > Find(record.sequence, c.kmer)
    /\ kmer2Files # EmptyMap

(***************************************************************************)
(* Buckets and the returned dataset.                                       *)
(***************************************************************************)
Normalising == pc \in {"open", "fit", "emit"}

Confident(events) == SelectSeq(events, LAMBDA event : event.conf > 30)

RECURSIVE Sum(_)
Sum(values) == IF values = <<>> THEN Zero ELSE FAdd(Head(values), Sum(Tail(values)))

ModelMean(event) == kmer2MeanStd[event.kmer].mean
InverseVariance(event) ==
    FDiv(One, FMul(kmer2MeanStd[event.kmer].std, kmer2MeanStd[event.kmer].std))

Sw(q) == Sum([i \in 1..Len(q) |-> InverseVariance(q[i])])
Swm(q) == Sum([i \in 1..Len(q) |-> FMul(InverseVariance(q[i]), ModelMean(q[i]))])
Swmm(q) ==
    Sum([i \in 1..Len(q) |->
            FMul(InverseVariance(q[i]), FMul(ModelMean(q[i]), ModelMean(q[i])))])
Swe(q) == Sum([i \in 1..Len(q) |-> FMul(InverseVariance(q[i]), Num(q[i].mean))])
Swem(q) ==
    Sum([i \in 1..Len(q) |->
            FMul(InverseVariance(q[i]), FMul(Num(q[i].mean), ModelMean(q[i])))])

Slope(q) ==
    FDiv(FSub(FMul(Sw(q), Swem(q)), FMul(Swm(q), Swe(q))),
         FSub(FMul(Sw(q), Swmm(q)), FMul(Swm(q), Swm(q))))
Intercept(q) == FDiv(FSub(Swe(q), FMul(Slope(q), Swm(q))), Sw(q))

\* What the code is expected to give for the events of one read.
ExpectedNormalised(events) ==
    LET q == Confident(events)
    IN  [i \in 1..Len(q) |-> FSub(FDiv(Num(q[i].mean), Slope(q)), Intercept(q))]

\* C10: every bucket key is a 7mer with a middle A; a resolved record either
\* leaves the buckets alone or appends the path of its read to the bucket of its
\* own single candidate and touches no other bucket; and every key of the
\* returned dataset holds one normalised sequence per path of its bucket, the
\* i-th being that of the i-th path.
C10_BucketsFollowRecords ==
    /\ [](\A kmer \in DOMAIN kmer2Files : Len(kmer) = 7 /\ kmer[4] = "A")
    /\ [][Resolves =>
            \/ kmer2Files' = kmer2Files
            \/ \E c \in Flanked(record'.sequence) :
                /\ Cardinality(Flanked(record'.sequence)) = 1
                /\ record'.readID \in DOMAIN readIDMap
                /\ DOMAIN kmer2Files' = DOMAIN kmer2Files \cup {c.kmer}
                /\ kmer2Files'[c.kmer] =
                       BucketOf(kmer2Files, c.kmer) \o <<readIDMap[record'.readID]>>
                /\ \A other \in DOMAIN kmer2Files \ {c.kmer} :
                       kmer2Files'[other] = kmer2Files[other]]_vars
    /\ [](pc = "done" =>
            \A kmer \in DOMAIN kmer2normalisedReads :
                /\ kmer \in DOMAIN kmer2Files
                /\ Len(kmer2normalisedReads[kmer]) = Len(kmer2Files[kmer])
                /\ \A i \in 1..Len(kmer2Files[kmer]) :
                       kmer2normalisedReads[kmer][i]
                           = ExpectedNormalised(h5[kmer2Files[kmer][i]]))

C10_Witness ==
    /\ pc = "done"
    /\ \E kmer \in DOMAIN kmer2normalisedReads :
        /\ kmer2Files[kmer] = <<"r2.fast5", "r1.fast5">>
        /\ kmer2normalisedReads[kmer] =
               <<ExpectedNormalised(h5["r2.fast5"]), ExpectedNormalised(h5["r1.fast5"])>>
        /\ kmer2normalisedReads[kmer][1] # kmer2normalisedReads[kmer][2]
    /\ \E other \in DOMAIN kmer2Files : other \notin DOMAIN kmer2normalisedReads

(***************************************************************************)
(* The fit of one read.                                                    *)
(***************************************************************************)
\* The read that the call is given first, and what the call made of it.
FirstRead == h5[fast5Files[1]]
FirstOutput == allNormalisedReads[1]
FirstReadNormalised ==
    Len(fast5Files) = 1 /\ Len(allNormalisedReads) = 1 /\ pc \in {"open", "done"}

\* C5: a read whose fit succeeds gives one output per event with a confidence
\* above 0.30, in the order of the events, the i-th being
\* event_mean/scale - shift; the events at or below 0.30 had no part in the fit.
C5_OneOutputPerConfidentEvent ==
    FirstReadNormalised =>
        \A q \in {Confident(FirstRead)} :
            /\ Len(FirstOutput) = Len(q)
            /\ \A i \in 1..Len(q) :
                   FirstOutput[i] = FSub(FDiv(Num(q[i].mean), scale), shift)
            /\ A[1] = Sw(q)
            /\ b[1] = Swe(q)

C5_Witness ==
    /\ FirstReadNormalised
    /\ pc = "done"
    /\ Len(FirstRead) = 3
    /\ FirstRead[2].conf = 30
    /\ FirstRead[2].mean # FirstRead[1].mean
    /\ Len(FirstOutput) = 2
    /\ FirstOutput[1] # FirstOutput[2]

ZeroNoise(q) ==
    \A i \in 1..Len(q) :
        q[i].kmer \in DOMAIN kmer2MeanStd /\ Num(q[i].mean) = ModelMean(q[i])

TwoModelMeans(q) ==
    \E i, j \in 1..Len(q) :
        /\ q[i].kmer \in DOMAIN kmer2MeanStd
        /\ q[j].kmer \in DOMAIN kmer2MeanStd
        /\ ModelMean(q[i]) # ModelMean(q[j])

\* SolveFit has acted on the first read.
FitTried ==
    Len(fast5Files) = 1 /\ (pc = "emit" \/ FirstReadNormalised \/ err = "LinAlgError")

UnitFit ==
    /\ err = "none"
    /\ scale = One
    /\ shift = Zero
    /\ FirstReadNormalised =>
           FirstOutput = [i \in 1..Len(Confident(FirstRead)) |->
                              ModelMean(Confident(FirstRead)[i])]

C7_AffineReadRecovered ==
    FirstReadNormalised =>
        \A q \in {Confident(FirstRead)} : \A i, j \in 1..Len(q) :
            ModelMean(q[i]) # ModelMean(q[j]) =>
                \A s \in {FDiv(FSub(Num(q[j].mean), Num(q[i].mean)),
                               FSub(ModelMean(q[j]), ModelMean(q[i])))} :
                    s # Zero =>
                        \A t \in {FSub(FDiv(Num(q[i].mean), s), ModelMean(q[i]))} :
                            (\A n \in 1..Len(q) :
                                 Num(q[n].mean) = FMul(s, FAdd(ModelMean(q[n]), t)))
                            => /\ shift = t
                               /\ scale = s
                               /\ \A n \in 1..Len(q) : FirstOutput[n] = ModelMean(q[n])

(***************************************************************************)
(* Runs over several reads.                                                *)
(***************************************************************************)
Ended == pc \in {"done", "raised"}

HasConfidentEvent(path) == Confident(h5[path]) # <<>>

\* C8: a read whose fit cannot be solved is skipped and the run goes on: a call
\* on a list with a read that has qualifying events never ends on the solver's
\* error, and it returns one sequence for every such read.
C8_SingularReadSkipped ==
    /\ (/\ Ended
        /\ err # "KeyError"
        /\ \E i \in 1..Len(fast5Files) : HasConfidentEvent(fast5Files[i]))
           => pc = "done"
    /\ pc = "done" =>
           Len(allNormalisedReads) =
               Cardinality({i \in 1..Len(fast5Files) : HasConfidentEvent(fast5Files[i])})

\* C9: at most one fast5 file is open at any moment, none is open when the next
\* is about to be opened, and none is open once the call has ended, by return
\* or by exception.
C9_FilesClosed ==
    /\ Cardinality(openFiles) <= 1
    /\ pc = "open" => openFiles = {}
    /\ Ended => openFiles = {}

====
